---- MODULE Spec2Model ----
(***************************************************************************)
(* A model of the PMD401 emulator (src/emu.py) and of the lazy TCP socket  *)
(* used by its client (src/lazy_sock.py).                                   *)
(*                                                                         *)
(* Text is a sequence of one-character strings, so that the command        *)
(* parser, int() and the reply formatting are computed character by        *)
(* character as the code computes them.                                     *)
(***************************************************************************)
EXTENDS Integers, Sequences, FiniteSets, TLC

(***************************************************************************)
(* Program constants                                                       *)
(***************************************************************************)
CHANNELS == 3

(***************************************************************************)
(* Bounds of the model                                                     *)
(***************************************************************************)
\* target values written by the sessions of the concurrent specification: 0..MaxTarget
MaxTarget == 2
\* the disconnect_timeout a LazyTCPSocket is constructed with, in time units
DisconnectTimeout == 2

(***************************************************************************)
(* Text helpers                                                            *)
(***************************************************************************)
LF == "\n"
CR == "\r"
SEMI == ";"
Digits == <<"0", "1", "2", "3", "4", "5", "6", "7", "8", "9">>
DigitChars == {Digits[i] : i \in 1..10}
Delimiters == {SEMI, LF, CR}

DigitVal(c) == (CHOOSE i \in 1..10 : Digits[i] = c) - 1

RECURSIVE Concat(_)
Concat(parts) ==
    IF parts = <<>> THEN <<>> ELSE Head(parts) \o Concat(Tail(parts))

Contains(s, c) == \E i \in 1..Len(s) : s[i] = c

Max(S) == CHOOSE x \in S : \A y \in S : y <= x
Min(S) == CHOOSE x \in S : \A y \in S : x <= y

\* the text of a non-negative integer, as an f-string writes it
RECURSIVE NatToStr(_)
NatToStr(n) ==
    IF n < 10 THEN <<Digits[n + 1]>>
    ELSE NatToStr(n \div 10) \o <<Digits[(n % 10) + 1]>>

\* f"{position}" for an int
IntToStr(n) == IF n < 0 THEN <<"-">> \o NatToStr(0 - n) ELSE NatToStr(n)

RECURSIVE DigitsToNat(_)
DigitsToNat(s) ==
    IF s = <<>> THEN 0
    ELSE 10 * DigitsToNat(SubSeq(s, 1, Len(s) - 1)) + DigitVal(s[Len(s)])

AllDigits(s) == Len(s) > 0 /\ \A i \in 1..Len(s) : s[i] \in DigitChars

\* int(text): an optional sign and one or more decimal digits; anything else
\* over the model's alphabet raises ValueError (ok = FALSE).
IntOf(s) ==
    IF AllDigits(s) THEN [ok |-> TRUE, val |-> DigitsToNat(s)]
    ELSE IF Len(s) > 1 /\ s[1] \in {"-", "+"} /\ AllDigits(Tail(s))
         THEN [ok |-> TRUE,
               val |-> IF s[1] = "-" THEN 0 - DigitsToNat(Tail(s))
                       ELSE DigitsToNat(Tail(s))]
         ELSE [ok |-> FALSE, val |-> 0]

(***************************************************************************)
(* COMMAND_RE under re.match: the letter X; group 1, a question mark or a  *)
(* run of digits; optional group 2, one of E, T, Y and any characters;     *)
(* group 3, one delimiter; the end of the text.  Matching is greedy with   *)
(* backtracking, "any character" excludes the line feed, and the end       *)
(* anchor matches at the end of the text or just before a final line feed. *)
(***************************************************************************)
\* group 3 at position q, followed by the end anchor
DelimiterAt(l, q) ==
    /\ q >= 1
    /\ q <= Len(l)
    /\ l[q] \in Delimiters
    /\ \/ q = Len(l)
       \/ q = Len(l) - 1 /\ l[Len(l)] = LF

\* the end of group 1, which starts at position 2: the question mark
\* alternative first, then the longest run of digits (a shorter run is
\* followed by a digit, which neither group 2 nor the delimiter accepts).
ChannelEnd(l) ==
    IF Len(l) >= 2 /\ l[2] = "?" THEN 2
    ELSE Max({e \in 1..Len(l) : \A i \in 2..e : l[i] \in DigitChars})

\* the ends "any characters" can reach from an operation letter at position p
DotStarEnds(l, p) == {e \in p..Len(l) : \A i \in (p + 1)..e : l[i] # LF}

\* the ends of group 2 that let the rest of the pattern match
NameEnds(l, p) == {e \in DotStarEnds(l, p) : DelimiterAt(l, e + 1)}

\* COMMAND_RE.match(line): matched, with the three groups (has_name is FALSE
\* when group 2 took no part in the match, which Python reports as None)
CommandMatch(l) ==
    LET nomatch == [matched |-> FALSE, channel |-> <<>>, has_name |-> FALSE,
                    name |-> <<>>, delimiter |-> ""]
    IN  IF Len(l) < 2 \/ l[1] # "X" THEN nomatch
        ELSE LET ce == ChannelEnd(l)
                 p == ce + 1
                 chan == SubSeq(l, 2, ce)
             IN  IF p <= Len(l) /\ l[p] \in {"E", "T", "Y"}
                 THEN IF NameEnds(l, p) = {} THEN nomatch
                      ELSE LET e == Max(NameEnds(l, p))
                           IN  [matched |-> TRUE, channel |-> chan,
                                has_name |-> TRUE, name |-> SubSeq(l, p, e),
                                delimiter |-> l[e + 1]]
                 ELSE IF DelimiterAt(l, p)
                      THEN [matched |-> TRUE, channel |-> chan,
                            has_name |-> FALSE, name |-> <<>>,
                            delimiter |-> l[p]]
                      ELSE nomatch

\* str.split(","): the pieces between the commas
RECURSIVE SplitComma(_)
SplitComma(s) ==
    IF ~Contains(s, ",") THEN <<s>>
    ELSE LET i == Min({k \in 1..Len(s) : s[k] = ","})
         IN  <<SubSeq(s, 1, i - 1)>> \o SplitComma(SubSeq(s, i + 1, Len(s)))

\* _parse_command: kind "none" is the None result, "cmd" a Command, and
\* "raise" the ValueError of unpacking a split of more than two pieces.
NoCommand(kind) ==
    [kind |-> kind, channel |-> <<>>, has_name |-> FALSE, name |-> <<>>,
     has_argument |-> FALSE, argument |-> <<>>, suppress_response |-> FALSE]

_parse_command(line) ==
    LET res == CommandMatch(line)
    IN  IF ~res.matched THEN NoCommand("none")
        ELSE IF res.has_name /\ Contains(res.name, ",")
             THEN LET pieces == SplitComma(res.name)
                  IN  IF Len(pieces) # 2 THEN NoCommand("raise")
                      ELSE [kind |-> "cmd", channel |-> res.channel,
                            has_name |-> TRUE, name |-> pieces[1],
                            has_argument |-> TRUE, argument |-> pieces[2],
                            suppress_response |-> res.delimiter = SEMI]
             ELSE [kind |-> "cmd", channel |-> res.channel,
                   has_name |-> res.has_name, name |-> res.name,
                   has_argument |-> FALSE, argument |-> <<>>,
                   suppress_response |-> res.delimiter = SEMI]

(***************************************************************************)
(* The replies of the command handlers                                     *)
(***************************************************************************)
ParseErrorReply == <<"p", "a", "r", "s", "e", " ", "e", "r", "r", "o", "r", LF>>
StatusReply ==
    <<"X", "?", ":", "P", "M", "D", "4", "0", "1", " ", "V", "1", "8", "-",
      "e", "m", "u", CR>>
WatReply == <<"w", "a", "t", "?", LF>>

\* _list_channels_cmd: one line per channel, in ascending order
_list_channels_cmd ==
    Concat([n \in 1..CHANNELS |-> <<"X">> \o NatToStr(n - 1) \o <<LF>>])

\* the reply of _target_cmd (letter "T") and _encode_position_cmd ("E")
PositionReply(channel, letter, position) ==
    <<"X">> \o channel \o <<letter, ":">> \o IntToStr(position) \o <<CR>>

_config_encoder_cmd(command) ==
    <<"X">> \o command.channel \o <<"Y", "1", "3">> \o
    (IF ~command.has_argument
     THEN <<":", "1", ",", " ", "Q", "u", "a", "d", "_", "3", "2", CR>>
     ELSE <<",">> \o command.argument \o <<LF>>)

(***************************************************************************)
(* The dispatch of _handle_command                                         *)
(***************************************************************************)
\* the branch of the if/elif chain a parsed command takes; "raise" is the
\* TypeError of command.name[0] when the command has no name
Branch(command) ==
    IF command.kind = "none" THEN "parse_error"
    ELSE IF command.channel = <<"?">> THEN "status"
    ELSE IF command.channel = <<"1", "2", "7">> /\ ~command.has_name THEN "list"
    ELSE IF ~command.has_name THEN "raise"
    ELSE IF command.name[1] = "T" THEN "target"
    ELSE IF command.name = <<"E">> THEN "encoder"
    ELSE IF command.name = <<"Y", "1", "3">> THEN "config"
    ELSE "wat"

\* a list that wraps around instead of raising IndexError
ChannelLookupWrapped(command) ==
    LET n == IntOf(command.channel)
    IN  [ok |-> n.ok, idx |-> n.val % CHANNELS]

\* controller.channels[int(command.channel)]: int() raises ValueError on an
\* empty channel, the list raises IndexError past its end
ChannelLookup(command) ==
    LET n == IntOf(command.channel)
    IN  IF n.ok /\ n.val < CHANNELS THEN [ok |-> TRUE, idx |-> n.val]
        ELSE [ok |-> FALSE, idx |-> 0]

\* _target_cmd, line 111: "len(command.name) == 1" is the read, any longer
\* name the write
AnyTargetCmd(command) == command.kind = "cmd" /\ Branch(command) = "target"
IsTargetWrite(command) ==
    command.kind = "cmd" /\ Branch(command) = "target" /\ Len(command.name) > 1

\* int(command.name[1:])
NewTargetPos(command) == IntOf(Tail(command.name))

\* what handling a parsed command does before it touches a channel:
\* "raise" (an exception leaves _handle_command), "reply" (the reply is known
\* without a channel) or "channel" (a channel has to be locked)
Outcome(command) ==
    LET none == <<>>
    IN  CASE command.kind = "raise" -> [what |-> "raise", reply |-> none]
          [] Branch(command) = "parse_error" ->
                [what |-> "reply", reply |-> ParseErrorReply]
          [] Branch(command) = "status" -> [what |-> "reply", reply |-> StatusReply]
          [] Branch(command) = "list" ->
                [what |-> "reply", reply |-> _list_channels_cmd]
          [] Branch(command) = "raise" -> [what |-> "raise", reply |-> none]
          [] Branch(command) = "target" ->
                IF Len(command.name) > 1 /\ ~NewTargetPos(command).ok
                THEN [what |-> "raise", reply |-> none]
                ELSE IF ~ChannelLookup(command).ok
                     THEN [what |-> "raise", reply |-> none]
                     ELSE [what |-> "channel", reply |-> none]
          [] Branch(command) = "encoder" ->
                IF ~ChannelLookup(command).ok
                THEN [what |-> "raise", reply |-> none]
                ELSE [what |-> "channel", reply |-> none]
          [] Branch(command) = "config" ->
                [what |-> "reply", reply |-> _config_encoder_cmd(command)]
          [] OTHER -> [what |-> "reply", reply |-> WatReply]

\* the exception that leaves _handle_command, "none" when none does:
\* ValueError from the unpacking in _parse_command and from int(), TypeError
\* from command.name[0] on a command without name, IndexError from
\* controller.channels[...]
Raised(command) ==
    LET n == IntOf(command.channel)
    IN  IF command.kind = "raise" THEN "ValueError"
        ELSE IF Branch(command) = "raise" THEN "TypeError"
        ELSE IF Branch(command) \notin {"target", "encoder"} THEN "none"
        ELSE IF /\ Branch(command) = "target"
                /\ Len(command.name) > 1
                /\ ~NewTargetPos(command).ok THEN "ValueError"
        ELSE IF ~n.ok THEN "ValueError"
        ELSE IF n.val >= CHANNELS THEN "IndexError"
        ELSE "none"

\* "if command is None or (not command.suppress_response)"
ReplyAlwaysSent(command) == TRUE
ReplyIsSent(command) == command.kind = "none" \/ ~command.suppress_response

(***************************************************************************)
(* State                                                                   *)
(***************************************************************************)
Sessions == {"s1", "s2"}
ChannelIds == 0..(CHANNELS - 1)
NoHolder == "free"
NoLine == <<>>

VARIABLES
    encoder_position,   \* Channel.encoder_position, per channel
    target_position,    \* Channel.target_position, per channel
    lock,               \* Channel._lock: the session holding it, or NoHolder
    tpc,                \* motor_ticker: the line it is at, or "sleep"
    tidx,               \* motor_ticker: the channel of the for loop
    tdelta,             \* move_motor: the local delta
    spc,                \* serve_client: where each session is
    sline,              \* serve_client: the line being handled
    scmd,               \* _handle_command: the parsed command
    spos,               \* _target_cmd, _encode_position_cmd: position / old_position
    sout,               \* the bytes sent while handling the current line
    \* history variables, read by no action's guard
    togo,               \* ticks the channel still needs since its target was set
    side,               \* the side of the target the encoder is on: 1 below, -1 above
    dirty,              \* the target was written during the running move_motor
    written,            \* the text of the value of the last target write
    after               \* sessions that stored after this session's line came

\* LazyTCPSocket (src/lazy_sock.py).  Time is kept relative to now: a
\* variable holding a time holds how long from now it is, 0 once it is past.
VARIABLES
    _sock,              \* LazyTCPSocket._sock: None, or the connection, named
                        \* after the timer made with it
    _delayed_cb,        \* LazyTCPSocket._delayed_cb: None, or a timer
    disconnect_in,      \* LazyTCPSocket._disconnect_at - monotonic()
    _sock_lock,         \* LazyTCPSocket._sock_lock: its holder, or NoHolder
    tm_pc,              \* _DelayedCallback._run: where each timer thread is
    tm_wait,            \* the time left of the running _canceled.wait(timeout)
    tm_timeout,         \* _run: the local timeout
    tm_canceled,        \* _DelayedCallback._canceled
    cpc,                \* where each calling thread is
    csock,              \* the sock that _get_tcp_socket yielded to the caller
    epoch               \* history: flips with every call made on the wrapper

lazyVars == <<_sock, _delayed_cb, disconnect_in, _sock_lock, tm_pc, tm_wait,
              tm_timeout, tm_canceled, cpc, csock, epoch>>

emuVars == <<encoder_position, target_position, lock, tpc, tidx, tdelta,
             spc, sline, scmd, spos, sout>>
histVars == <<togo, side, dirty, written, after>>
vars == <<emuVars, histVars, lazyVars>>

InitEmu ==
    \* get_controller: Channel(0, 0) for every channel, all locks free
    /\ encoder_position = [c \in ChannelIds |-> 0]
    /\ target_position = [c \in ChannelIds |-> 0]
    /\ lock = [c \in ChannelIds |-> NoHolder]
    \* main: the ticker thread starts its first pass
    /\ tpc = "l47"
    /\ tidx = 0
    /\ tdelta = 0
    \* every session starts in _read_command_str
    /\ spc = [s \in Sessions |-> "read"]
    /\ sline = [s \in Sessions |-> NoLine]
    /\ scmd = [s \in Sessions |-> NoCommand("none")]
    /\ spos = [s \in Sessions |-> 0]
    /\ sout = [s \in Sessions |-> <<>>]
    /\ togo = [c \in ChannelIds |-> 0]
    /\ side = [c \in ChannelIds |-> 0]
    /\ dirty = [c \in ChannelIds |-> FALSE]
    /\ written = [c \in ChannelIds |-> <<"0">>]
    /\ after = [s \in Sessions |-> {}]

(***************************************************************************)
(* motor_ticker.  The ticker takes no lock.  It is the only writer of      *)
(* encoder_position, so the encoder loads of one source line are taken     *)
(* together with that line's load of target_position; the two loads of     *)
(* target_position (lines 47 and 50) and the store of line 51 are steps of *)
(* their own.                                                              *)
(***************************************************************************)
\* line 50: delta = 1 if target > encoder else -1
MotorDeltaUp(target, encoder) == 1
MotorDelta(target, encoder) == IF target > encoder THEN 1 ELSE -1

Abs(n) == IF n < 0 THEN 0 - n ELSE n
Sign(n) == IF n > 0 THEN 1 ELSE IF n < 0 THEN -1 ELSE 0

\* history: a quiet period of channel c starts with the encoder at enc and
\* the target at tgt, Abs(tgt - enc) ticks away
QuietFrom(c, enc, tgt) ==
    /\ togo' = [togo EXCEPT ![c] = Abs(tgt - enc)]
    /\ side' = [side EXCEPT ![c] = Sign(tgt - enc)]

\* move_motor(channel c) returns, leaving the encoder at enc: one tick of the
\* channel's quiet period has passed (history), and the for loop goes on to
\* the next channel or to time.sleep
MoveReturns(c, enc) ==
    /\ IF dirty[c]
       THEN /\ dirty' = [dirty EXCEPT ![c] = FALSE]
            /\ QuietFrom(c, enc, target_position[c])
       ELSE /\ togo' = [togo EXCEPT ![c] = IF togo[c] > 0 THEN togo[c] - 1 ELSE 0]
            /\ side' = [side EXCEPT ![c] = IF togo[c] > 1 THEN side[c] ELSE 0]
            /\ UNCHANGED dirty
    /\ IF c = CHANNELS - 1
       THEN tpc' = "sleep" /\ tidx' = 0
       ELSE tpc' = "l47" /\ tidx' = c + 1
    /\ UNCHANGED <<written, after>>

\* line 47: if channel.target_position == channel.encoder_position: return
TickerTest ==
    /\ tpc = "l47"
    /\ IF target_position[tidx] = encoder_position[tidx]
       THEN MoveReturns(tidx, encoder_position[tidx])
       ELSE tpc' = "l50" /\ UNCHANGED <<tidx, histVars>>
    /\ UNCHANGED <<encoder_position, target_position, lock, tdelta,
                   spc, sline, scmd, spos, sout,
                   lazyVars>>

\* line 50
TickerDelta ==
    /\ tpc = "l50"
    /\ tdelta' = MotorDelta(target_position[tidx], encoder_position[tidx])
    /\ tpc' = "l51"
    /\ UNCHANGED <<encoder_position, target_position, lock, tidx,
                   spc, sline, scmd, spos, sout, histVars,
                   lazyVars>>

\* line 51: channel.encoder_position += delta
TickerMove ==
    /\ tpc = "l51"
    /\ encoder_position' =
           [encoder_position EXCEPT ![tidx] = encoder_position[tidx] + tdelta]
    /\ tdelta' = 0
    /\ MoveReturns(tidx, encoder_position[tidx] + tdelta)
    /\ UNCHANGED <<target_position, lock, spc, sline, scmd, spos, sout,
                   lazyVars>>

\* line 56 and the next turn of "while True"
TickerSleep ==
    /\ tpc = "sleep"
    /\ tpc' = "l47"
    /\ tidx' = 0
    /\ UNCHANGED <<encoder_position, target_position, lock, tdelta,
                   spc, sline, scmd, spos, sout, histVars,
                   lazyVars>>

(***************************************************************************)
(* serve_client: one session per connection                                *)
(***************************************************************************)
\* Lock.acquire returns only when the lock is free
LockNotChecked(c) == TRUE
LockFree(c) == lock[c] = NoHolder

ChanOf(s) == ChannelLookup(scmd[s]).idx

\* connection.sendall(reply), unless the reply is suppressed; on a broken
\* connection sendall raises BrokenPipeError and serve_client ends the
\* session.  line and command are the locals of the handler that goes on.
SendReply(s, line, command, reply, broken) ==
    IF ReplyIsSent(command) /\ broken
    THEN /\ spc' = [spc EXCEPT ![s] = "closed"]
         /\ sline' = [sline EXCEPT ![s] = NoLine]
         /\ scmd' = [scmd EXCEPT ![s] = NoCommand("none")]
         /\ UNCHANGED sout
    ELSE /\ spc' = [spc EXCEPT ![s] = "handled"]
         /\ sline' = [sline EXCEPT ![s] = line]
         /\ scmd' = [scmd EXCEPT ![s] = command]
         /\ sout' = [sout EXCEPT ![s] = IF ReplyIsSent(command) THEN reply ELSE <<>>]

\* _read_command_str returns line; an empty line ends the session, any other
\* line goes to _handle_command, which runs up to its first channel access
Recv(s, line, broken) ==
    /\ spc[s] = "read"
    /\ IF line = NoLine
       THEN /\ spc' = [spc EXCEPT ![s] = "closed"]
            /\ UNCHANGED <<sline, scmd, sout>>
       ELSE LET command == _parse_command(line)
                o == Outcome(command)
            IN  CASE o.what = "raise" ->
                       /\ spc' = [spc EXCEPT ![s] = "crashed"]
                       /\ sline' = [sline EXCEPT ![s] = line]
                       /\ scmd' = [scmd EXCEPT ![s] = command]
                       /\ UNCHANGED sout
                  [] o.what = "reply" -> SendReply(s, line, command, o.reply, broken)
                  [] OTHER ->
                       /\ spc' = [spc EXCEPT ![s] = "acquire"]
                       /\ sline' = [sline EXCEPT ![s] = line]
                       /\ scmd' = [scmd EXCEPT ![s] = command]
                       /\ UNCHANGED sout
    /\ after' = [t \in Sessions |-> IF t = s THEN {} ELSE after[t] \ {s}]
    /\ UNCHANGED <<encoder_position, target_position, lock, tpc, tidx, tdelta,
                   spos, togo, side, dirty, written,
                   lazyVars>>

\* "with controller.channels[...] as channel": Channel.__enter__
Acquire(s) ==
    /\ spc[s] = "acquire"
    /\ LockFree(ChanOf(s))
    /\ lock' = [lock EXCEPT ![ChanOf(s)] = s]
    /\ spc' = [spc EXCEPT ![s] = "locked"]
    /\ UNCHANGED <<encoder_position, target_position, tpc, tidx, tdelta,
                   sline, scmd, spos, sout, histVars,
                   lazyVars>>

\* Channel.__exit__, after which the reply is formatted and sent; it is taken
\* in one step with the last statement of the with block
ReleaseAndReply(s, position, broken) ==
    /\ lock' = [lock EXCEPT ![ChanOf(s)] = NoHolder]
    /\ SendReply(s, sline[s], scmd[s],
                 PositionReply(scmd[s].channel, scmd[s].name[1], position),
                 broken)

\* old_position = channel.target_position (line 120)
ReadOld(s) ==
    /\ spc[s] = "locked"
    /\ IsTargetWrite(scmd[s])
    /\ spos' = [spos EXCEPT ![s] = target_position[ChanOf(s)]]
    /\ spc' = [spc EXCEPT ![s] = "store"]
    /\ UNCHANGED <<encoder_position, target_position, lock, tpc, tidx, tdelta,
                   sline, scmd, sout, histVars,
                   lazyVars>>

\* position = channel.target_position (line 114) or channel.encoder_position
\* (line 128), the only statement of its with block
ReadPosition(s, broken) ==
    LET position == IF Branch(scmd[s]) = "encoder"
                    THEN encoder_position[ChanOf(s)]
                    ELSE target_position[ChanOf(s)]
    IN  /\ spc[s] = "locked"
        /\ ~IsTargetWrite(scmd[s])
        /\ spos' = [spos EXCEPT ![s] = position]
        /\ ReleaseAndReply(s, position, broken)
        /\ UNCHANGED <<encoder_position, target_position, tpc, tidx, tdelta,
                       histVars,
                   lazyVars>>

\* line 123: the position a target write replies with
RepliedPositionNew(old_position, new_target_pos) == new_target_pos
RepliedPosition(old_position, new_target_pos) == old_position

\* the channel and value a target write stores
StoreChannelZero(command) == 0
StoreValue(command) == NewTargetPos(command).val
StoreChannel(command) == ChannelLookup(command).idx

\* line 121: channel.target_position = new_target_pos, the last statement of
\* its with block
Store(s, broken) ==
    LET c == StoreChannel(scmd[s])
        inMove == tidx = c /\ tpc \in {"l50", "l51"}
    IN  /\ spc[s] = "store"
        /\ target_position' = [target_position EXCEPT ![c] = StoreValue(scmd[s])]
        /\ ReleaseAndReply(s, RepliedPosition(spos[s], StoreValue(scmd[s])), broken)
        /\ written' = [written EXCEPT ![c] = Tail(scmd[s].name)]
        /\ after' = [t \in Sessions |->
                        IF /\ t # s
                           /\ spc[t] \in {"acquire", "locked", "store", "handled"}
                           /\ IsTargetWrite(scmd[t])
                           /\ ChanOf(t) = c
                        THEN after[t] \cup {s} ELSE after[t]]
        /\ IF inMove
           THEN dirty' = [dirty EXCEPT ![c] = TRUE] /\ UNCHANGED <<togo, side>>
           ELSE /\ QuietFrom(c, encoder_position[c], StoreValue(scmd[s]))
                /\ UNCHANGED dirty
        /\ UNCHANGED <<encoder_position, tpc, tidx, tdelta, spos,
                   lazyVars>>

\* _handle_command returned: the while loop calls _read_command_str again
LoopBack(s) ==
    /\ spc[s] = "handled"
    /\ spc' = [spc EXCEPT ![s] = "read"]
    /\ sline' = [sline EXCEPT ![s] = NoLine]
    /\ scmd' = [scmd EXCEPT ![s] = NoCommand("none")]
    /\ spos' = [spos EXCEPT ![s] = 0]
    /\ sout' = [sout EXCEPT ![s] = <<>>]
    /\ UNCHANGED <<encoder_position, target_position, lock, tpc, tidx, tdelta,
                   histVars,
                   lazyVars>>

(***************************************************************************)
(* The request lines of the sessions                                       *)
(***************************************************************************)
Line(channel, op, delimiter) == <<"X">> \o channel \o op \o delimiter

\* the concurrent specification: target writes of 0..MaxTarget, a target
\* read and an encoder read on channel 0, the end of the stream
ConcLines ==
    {Line(<<"0">>, <<"T">> \o NatToStr(v), <<LF>>) : v \in 0..MaxTarget}
    \cup {Line(<<"0">>, <<"T">>, <<LF>>), Line(<<"0">>, <<"E">>, <<LF>>),
          NoLine}

Ticker == TickerTest \/ TickerDelta \/ TickerMove \/ TickerSleep

Session(s) ==
    \/ Acquire(s)
    \/ ReadOld(s)
    \/ \E broken \in BOOLEAN : ReadPosition(s, broken)
    \/ \E broken \in BOOLEAN : Store(s, broken)
    \/ LoopBack(s)

Callers == {"c1", "c2"}
TimerIds == {"t1", "t2"}
None == "None"
NoTime == -1

\* LazyTCPSocket.__init__; no timer thread exists yet, no caller is in a call
InitLazy ==
    /\ _sock = None
    /\ _delayed_cb = None
    /\ disconnect_in = NoTime
    /\ _sock_lock = NoHolder
    /\ tm_pc = [t \in TimerIds |-> "unborn"]
    /\ tm_wait = [t \in TimerIds |-> 0]
    /\ tm_timeout = [t \in TimerIds |-> 0]
    /\ tm_canceled = [t \in TimerIds |-> FALSE]
    /\ cpc = [c \in Callers |-> "idle"]
    /\ csock = [c \in Callers |-> None]
    /\ epoch = 0

Init == InitEmu /\ InitLazy
Next ==
    \/ Ticker
    \/ \E s \in Sessions :
          \/ \E line \in ConcLines, broken \in BOOLEAN : Recv(s, line, broken)
          \/ Session(s)
Spec == Init /\ [][Next]_vars

(***************************************************************************)
(* The handler specification: one session handles every request line of    *)
(* AllLines, built from a channel text, an operation text and an ending.   *)
(***************************************************************************)
LineChannels == {<<>>, <<"?">>, <<"0">>, <<"2">>, <<"5">>, <<"1", "2", "7">>}
LineOps ==
    {<<>>, <<"E">>, <<"T">>, <<"T", "2">>, <<"T", "-", "1">>, <<"T", "a">>,
     <<"Y", "1", "3">>, <<"Y", "1", "3", ",", "6">>,
     <<"Y", "1", "3", ",", "6", ",", "7">>, <<"Y", "1", "2">>, <<"E", "5">>,
     <<"S">>, <<"T", "1", SEMI, "X", "0", "T">>}
\* the three delimiters, a line cut short by the peer closing, CR LF, and a
\* silent delimiter followed by a line feed in the same read
LineEndings == {<<SEMI>>, <<LF>>, <<CR>>, <<>>, <<CR, LF>>, <<SEMI, LF>>}

\* _read_command_str over the chunks its sock.recv calls return, in order:
\* chunks are appended to line until line ends with a delimiter or recv
\* returns the empty chunk of a closed connection (a stream that runs out
\* is a connection the peer closed)
RECURSIVE ReadFrom(_, _)
ReadFrom(line, reads) ==
    IF line # <<>> /\ line[Len(line)] \in Delimiters THEN line
    ELSE IF reads = <<>> \/ Head(reads) = <<>> THEN line
    ELSE ReadFrom(line \o Head(reads), Tail(reads))

_read_command_str(reads) == ReadFrom(<<>>, reads)

\* the bytes a client sends when it configures the encoders of the three
\* channels back to back, and a target write followed by a target read
Streams ==
    {<<"X", "0", "Y", "1", "3", ",", "6", SEMI>>
       \o <<"X", "1", "Y", "1", "3", ",", "6", SEMI>>
       \o <<"X", "2", "Y", "1", "3", ",", "6", SEMI>>,
     <<"X", "0", "T", "2", SEMI, "X", "0", "T", LF>>}

\* the ways the bytes of a stream arrive in one or two reads
Segmentations(bytes) ==
    {<<SubSeq(bytes, 1, k), SubSeq(bytes, k + 1, Len(bytes))>> :
        k \in 1..Len(bytes)}

StreamLines ==
    UNION {{_read_command_str(reads) : reads \in Segmentations(bytes)} :
              bytes \in Streams}

AllLines ==
    {Line(ch, op, d) : ch \in LineChannels, op \in LineOps, d \in LineEndings}
    \cup {<<"b", "a", "d", LF>>, <<LF>>, <<"x", "0", "T", LF>>, NoLine}
    \cup StreamLines

Handler == "s1"

NextHandle ==
    \/ \E line \in AllLines, broken \in BOOLEAN : Recv(Handler, line, broken)
    \/ Session(Handler)

SpecHandle == Init /\ [][NextHandle]_vars

(***************************************************************************)
(* The channels specification: the motor ticker and two sessions that      *)
(* write targets to channels 0 and 1 and read the target of channel 1.     *)
(***************************************************************************)
ChannelLines ==
    {Line(<<"0">>, <<"T">> \o NatToStr(v), <<LF>>) : v \in 1..MaxTarget}
    \cup {Line(<<"1">>, <<"T", "1">>, <<LF>>), Line(<<"1">>, <<"T">>, <<LF>>)}

NextChannels ==
    \/ Ticker
    \/ \E s \in Sessions :
          \/ \E line \in ChannelLines, broken \in BOOLEAN : Recv(s, line, broken)
          \/ Session(s)

SpecChannels == Init /\ [][NextChannels]_vars

(***************************************************************************)
(* The frame specification: the motor ticker and one session that sends a  *)
(* command of every kind.                                                  *)
(***************************************************************************)
FrameLines ==
    {Line(NatToStr(n), <<"T">> \o NatToStr(v), <<LF>>) :
        n \in {0, 2}, v \in 0..MaxTarget}
    \cup {Line(<<"0">>, <<"T">>, <<LF>>), Line(<<"0">>, <<"E">>, <<LF>>),
          Line(<<"?">>, <<>>, <<LF>>), Line(<<"1", "2", "7">>, <<>>, <<LF>>),
          Line(<<"0">>, <<"Y", "1", "3">>, <<LF>>),
          Line(<<"2">>, <<"Y", "1", "3", ",", "6">>, <<SEMI>>),
          Line(<<"0">>, <<"S">>, <<SEMI>>), NoLine}

NextFrame ==
    \/ Ticker
    \/ \E line \in FrameLines, broken \in BOOLEAN : Recv(Handler, line, broken)
    \/ Session(Handler)

SpecFrame == Init /\ [][NextFrame]_vars

(***************************************************************************)
(* Claims about the emulator                                               *)
(***************************************************************************)
IsTargetRead(command) ==
    command.kind = "cmd" /\ Branch(command) = "target" /\ Len(command.name) = 1

\* the text "X<channel>T:<value>" and a carriage return
TargetReplyText(channel, value) ==
    <<"X">> \o channel \o <<"T", ":">> \o IntToStr(value) \o <<CR>>

\* C1: a target write X<n>T<V> on a channel in range replies with the target
\* the channel held immediately before the write and leaves the target at V;
\* a target read replies with the value of the last write to the channel,
\* whatever the other session and the motor ticker did in between.
C1_WriteRepliesOldReadRepliesNew ==
    [][\A s \in Sessions :
         /\ (spc[s] = "store" /\ spc'[s] = "handled") =>
               /\ target_position'[ChanOf(s)] = IntOf(Tail(scmd[s].name)).val
               /\ ~scmd[s].suppress_response =>
                     sout'[s] = TargetReplyText(scmd[s].channel,
                                                target_position[ChanOf(s)])
         /\ (spc[s] = "locked" /\ spc'[s] = "handled" /\ IsTargetRead(scmd[s])) =>
               sout'[s] = TargetReplyText(scmd[s].channel,
                                          IntOf(written[ChanOf(s)]).val)
      ]_vars

\* C1 witness: one session's write of 2 to channel 0 was answered with the
\* previous target 1, and the other session's read was answered with 2
C1_Witness ==
    \E s, t \in Sessions :
        /\ s # t
        /\ spc[s] = "handled"
        /\ sline[s] = <<"X", "0", "T", "2", LF>>
        /\ sout[s] = <<"X", "0", "T", ":", "1", CR>>
        /\ spc[t] = "handled"
        /\ sline[t] = <<"X", "0", "T", LF>>
        /\ sout[t] = <<"X", "0", "T", ":", "2", CR>>

\* two sessions whose current target writes to one channel overlapped in
\* time (each stored after the other's line had arrived) and are both done
ConcurrentWrites(s, t) ==
    /\ s # t
    /\ spc[s] = "handled" /\ spc[t] = "handled"
    /\ IsTargetWrite(scmd[s]) /\ IsTargetWrite(scmd[t])
    /\ ChanOf(s) = ChanOf(t)
    /\ t \in after[s] /\ s \in after[t]

\* s stored first and t stored second: t was answered with s's value, and
\* the channel holds t's value
SerialOrder(s, t) ==
    /\ spos[t] = StoreValue(scmd[s])
    /\ sout[t] = TargetReplyText(scmd[t].channel, StoreValue(scmd[s]))
    /\ sout[s] = TargetReplyText(scmd[s].channel, spos[s])
    /\ target_position[ChanOf(s)] = StoreValue(scmd[t])

\* C2: two concurrent target writes A and B to one channel are answered as
\* in one serial order of the two: the second writer is answered with the
\* first writer's value and the channel is left holding the second's.
C2_ConcurrentWritesSerial ==
    \A s, t \in Sessions :
        ConcurrentWrites(s, t) => SerialOrder(s, t) \/ SerialOrder(t, s)

\* C2 witness: concurrent writes of 1 and 2 over a target of 0, the writer
\* of 1 answered with 0 and the writer of 2 with 1
C2_Witness ==
    \E s, t \in Sessions :
        /\ ConcurrentWrites(s, t)
        /\ StoreValue(scmd[s]) = 1 /\ StoreValue(scmd[t]) = 2
        /\ spos[s] = 0 /\ spos[t] = 1
        /\ target_position[0] = 2

Parsed(s) == _parse_command(sline[s]).kind = "cmd"
\* handling the line is over
Finished(s) == spc[s] \in {"handled", "crashed"}

\* C4: a parsed line ended by the silent delimiter sends nothing, a line
\* that fails to parse sends exactly the parse-error reply, and a parsed
\* line ended by a line feed or carriage return sends exactly one reply.
C4_ReplyPerLine ==
    \A s \in Sessions :
        Finished(s) =>
            /\ (Parsed(s) /\ scmd[s].suppress_response) => sout[s] = <<>>
            /\ _parse_command(sline[s]).kind = "none" => sout[s] = ParseErrorReply
            /\ (Parsed(s) /\ ~scmd[s].suppress_response) => sout[s] # <<>>

\* C5: no request line ends a session: a session never dies of an exception
\* raised while it handles a line.
C5_NoLineEndsSession == \A s \in Sessions : spc[s] # "crashed"

\* C6: a parsed line that matches none of the dispatch rules is answered
\* with the unknown-command reply.
C6_UnknownCommandReply ==
    \A s \in Sessions :
        LET command == _parse_command(sline[s])
        IN  (/\ Finished(s)
             /\ command.kind = "cmd"
             /\ ~command.suppress_response
             /\ command.channel # <<"?">>
             /\ ~(command.channel = <<"1", "2", "7">> /\ ~command.has_name)
             /\ ~(command.has_name /\ command.name[1] = "T")
             /\ ~(command.has_name /\ command.name = <<"E">>)
             /\ ~(command.has_name /\ command.name = <<"Y", "1", "3">>))
            => (spc[s] = "handled" /\ sout[s] = WatReply)

\* C10: every thread that is at a read or write of a channel's
\* encoder_position or target_position holds that channel's lock.
C10_AccessUnderLock ==
    /\ tpc \in {"l47", "l50", "l51"} => lock[tidx] = "ticker"
    /\ \A s \in Sessions :
          spc[s] \in {"locked", "store"} => lock[ChanOf(s)] = s

\* C11: whenever the encoder of a channel changes, it was not at the target
\* the channel holds at that instant, and it ends one step nearer to it.
C11_TickAtomic ==
    [][\A c \in ChannelIds :
         encoder_position'[c] # encoder_position[c] =>
            /\ encoder_position[c] # target_position[c]
            /\ Abs(target_position[c] - encoder_position'[c])
                  = Abs(target_position[c] - encoder_position[c]) - 1
      ]_vars

\* the position of the first comma of a text that has one
FirstComma(text) == Min({k \in 1..Len(text) : text[k] = ","})

\* C14: _parse_command raises on no line, and the Command of an operation
\* with commas has the text before the first comma as its name and the
\* text after the first comma as its argument.
C14_ParserNeverRaises ==
    \A s \in Sessions :
        sline[s] # NoLine =>
            LET command == _parse_command(sline[s])
                op == CommandMatch(sline[s]).name
            IN  /\ command.kind \in {"none", "cmd"}
                /\ (command.kind = "cmd" /\ Contains(op, ",")) =>
                      /\ command.name = SubSeq(op, 1, FirstComma(op) - 1)
                      /\ command.has_argument
                      /\ command.argument =
                            SubSeq(op, FirstComma(op) + 1, Len(op))

\* the first request of a line: the line up to its first delimiter
FirstRequest(line) ==
    SubSeq(line, 1, Min({k \in 1..Len(line) : line[k] \in Delimiters}))

\* C15: the command a session dispatches for a line is the first request
\* of the bytes read, ending at its own first delimiter.
C15_OneCommandPerTerminator ==
    \A s \in Sessions :
        (sline[s] # NoLine /\ \E k \in 1..Len(sline[s]) : sline[s][k] \in Delimiters)
            => scmd[s] = _parse_command(FirstRequest(sline[s]))

\* C16: the store of a target write X<n>T<V> that ends with the silent
\* delimiter leaves channel n's target at V, ends the handling of the line
\* and sends no bytes.
C16_SuppressedWriteTakesEffect ==
    [][\A s \in Sessions :
         (/\ spc[s] = "store"
          /\ spc'[s] # "store"
          /\ sline[s][Len(sline[s])] = SEMI) =>
            /\ scmd[s].suppress_response
            /\ target_position'[ChanOf(s)] = IntOf(Tail(scmd[s].name)).val
            /\ spc'[s] = "handled"
            /\ sout'[s] = <<>>
      ]_vars

\* C16 witness: "X2T2;" was handled: channel 2 holds target 2 and nothing
\* was sent
C16_Witness ==
    /\ spc[Handler] = "handled"
    /\ sline[Handler] = <<"X", "2", "T", "2", SEMI>>
    /\ target_position[2] = 2
    /\ sout[Handler] = <<>>

\* C17: the store of a target write on channel n sets the target of
\* channel n to the written value and changes no other target and no
\* encoder; the target of a channel changes only by the store of a write
\* addressed to it; and a handler waits for the lock of its own channel
\* only: it can go on exactly when that lock is free.
C17_ChannelsIndependent ==
    /\ [][/\ \A s \in Sessions :
              (spc[s] = "store" /\ spc'[s] # "store") =>
                 /\ target_position'[ChanOf(s)] = IntOf(Tail(scmd[s].name)).val
                 /\ \A d \in ChannelIds \ {ChanOf(s)} :
                       target_position'[d] = target_position[d]
                 /\ encoder_position' = encoder_position
          /\ \A c \in ChannelIds :
              target_position'[c] # target_position[c] =>
                 \E s \in Sessions :
                    /\ spc[s] = "store"
                    /\ spc'[s] # "store"
                    /\ IntOf(scmd[s].channel).val = c
         ]_vars
    /\ [](\A s \in Sessions :
            spc[s] = "acquire" =>
               (ENABLED Acquire(s) <=> lock[IntOf(scmd[s].channel).val] = NoHolder))

\* C17 witness: one session has written MaxTarget to channel 0 and the
\* other 1 to channel 1, each was answered with the old target 0 of its own
\* channel, and each channel holds the value written to it
C17_Witness ==
    \E s, t \in Sessions :
        /\ spc[s] = "handled" /\ spc[t] = "handled"
        /\ sline[s] = Line(<<"0">>, <<"T">> \o NatToStr(MaxTarget), <<LF>>)
        /\ sline[t] = Line(<<"1">>, <<"T", "1">>, <<LF>>)
        /\ spos[s] = 0 /\ spos[t] = 0
        /\ target_position[0] = MaxTarget
        /\ target_position[1] = 1

\* the motor ticker takes a step
TickerSteps == tpc' # tpc \/ tidx' # tidx

\* the command of session s is the write form of T: a T and more text
WritesTarget(s) ==
    /\ scmd[s].kind = "cmd"
    /\ scmd[s].has_name
    /\ scmd[s].name[1] = "T"
    /\ Len(scmd[s].name) > 1

\* C18: a step of the motor ticker leaves every target as it is; a step of
\* a session leaves every encoder as it is, and leaves every target as it
\* is unless it is the store of a T write; only a T write gets to the
\* store, so that status, enumeration, E, bare T and Y13 commands change no
\* channel; and there are CHANNELS channels throughout.
C18_FrameOfChannelState ==
    /\ [][/\ TickerSteps => target_position' = target_position
          /\ encoder_position' # encoder_position =>
                (tpc = "l51" /\ spc' = spc)
          /\ \A s \in Sessions :
                spc'[s] # spc[s] =>
                   /\ encoder_position' = encoder_position
                   /\ spc[s] # "store" => target_position' = target_position
         ]_vars
    /\ [](\A s \in Sessions : spc[s] = "store" => WritesTarget(s))
    /\ [](/\ DOMAIN encoder_position = 0..(CHANNELS - 1)
          /\ DOMAIN target_position = 0..(CHANNELS - 1))

\* C18 witness: a bare T on channel 0 was answered with the target
\* MaxTarget, which an earlier write had set and which the encoder has
\* reached, while channel 2 still moves to its target 1
C18_Witness ==
    /\ spc[Handler] = "handled"
    /\ sline[Handler] = Line(<<"0">>, <<"T">>, <<LF>>)
    /\ sout[Handler] = TargetReplyText(<<"0">>, MaxTarget)
    /\ target_position[0] = MaxTarget
    /\ encoder_position[0] = MaxTarget
    /\ target_position[2] = 1
    /\ encoder_position[2] = 0

\* a T or E command whose channel is a number outside 0..CHANNELS-1 (and
\* whose value, if it is a T write, is a number)
OutOfRange(command) ==
    /\ command.kind = "cmd"
    /\ command.has_name
    /\ \/ command.name = <<"E">>
       \/ command.name = <<"T">>
       \/ command.name[1] = "T" /\ Len(command.name) > 1
             /\ IntOf(Tail(command.name)).ok
    /\ AllDigits(command.channel)
    /\ DigitsToNat(command.channel) >= CHANNELS

\* C19: handling a T or E command for a channel outside 0..CHANNELS-1 ends
\* with an IndexError, with nothing sent and with every channel's encoder,
\* target and lock as before.
C19_OutOfRangeChannel ==
    [][\A s \in Sessions :
         (spc[s] = "read" /\ spc'[s] # "read" /\ OutOfRange(_parse_command(sline'[s])))
            => /\ spc'[s] = "crashed"
               /\ Raised(scmd'[s]) = "IndexError"
               /\ sout'[s] = <<>>
               /\ encoder_position' = encoder_position
               /\ target_position' = target_position
               /\ lock' = lock
      ]_vars

\* C19 witness: "X5T2" ended in the exception after "X2T2" had set the
\* target of channel 2, which still is 2; channel 0 is untouched
C19_Witness ==
    /\ spc[Handler] = "crashed"
    /\ sline[Handler] = <<"X", "5", "T", "2", LF>>
    /\ Raised(scmd[Handler]) = "IndexError"
    /\ target_position = [c \in ChannelIds |-> IF c = 2 THEN 2 ELSE 0]
    /\ encoder_position = [c \in ChannelIds |-> 0]

(***************************************************************************)
(* LazyTCPSocket and _DelayedCallback                                      *)
(***************************************************************************)
\* the timer slot of a new _DelayedCallback thread: one whose thread does
\* not exist or has ended
FreeTimers == {t \in TimerIds : tm_pc[t] \in {"unborn", "dead"}}
NewTimer == IF "t1" \in FreeTimers THEN "t1" ELSE "t2"

\* "now < self._disconnect_at" is false
TimedOutNever(remaining) == FALSE
TimedOutAlways(remaining) == TRUE
TimedOut(remaining) == remaining = 0

\* self._sock after sock.connect raised: the local sock was not saved
FailedConnectSockSaved(sock) == sock
FailedConnectSock(sock) == None

\* Lock.acquire on _sock_lock returns only when the lock has no holder
SockLockNotChecked(holder) == TRUE
SockLockFree(holder) == holder = NoHolder

\* _disconnect, line 95: self._delayed_cb = None
DisconnectedCbKept(cb) == cb
DisconnectedCb(cb) == None

\* the clock moves on by one unit
Elapse(t) == IF t > 0 THEN t - 1 ELSE t
Tick ==
    /\ disconnect_in' = Elapse(disconnect_in)
    /\ tm_wait' = [t \in TimerIds |-> Elapse(tm_wait[t])]
    /\ UNCHANGED <<_sock, _delayed_cb, _sock_lock, tm_pc, tm_timeout,
                   tm_canceled, cpc, csock, epoch, emuVars, histVars>>

\* a thread calls sendall or recv
CallUse(c) ==
    /\ cpc[c] = "idle"
    /\ cpc' = [cpc EXCEPT ![c] = "enter"]
    /\ epoch' = 1 - epoch
    /\ UNCHANGED <<_sock, _delayed_cb, disconnect_in, _sock_lock, tm_pc,
                   tm_wait, tm_timeout, tm_canceled, csock, emuVars, histVars>>

\* _get_tcp_socket, lines 110-114: take the lock, move the disconnect time
EnterSection(c) ==
    /\ cpc[c] = "enter"
    /\ SockLockFree(_sock_lock)
    /\ _sock_lock' = c
    /\ disconnect_in' = DisconnectTimeout
    /\ cpc' = [cpc EXCEPT ![c] = IF _sock = None THEN "connect" ELSE "in"]
    /\ csock' = [csock EXCEPT ![c] = _sock]
    /\ UNCHANGED <<_sock, _delayed_cb, tm_pc, tm_wait, tm_timeout,
                   tm_canceled, epoch, emuVars, histVars>>

\* _connect: sock.connect succeeds (the socket is saved and a timer thread
\* started) or raises (the exception leaves the with block, which releases
\* the lock, and reaches the caller of sendall/recv)
Connect(c, ok) ==
    /\ cpc[c] = "connect"
    /\ IF ok
       THEN /\ FreeTimers # {}
            /\ _sock' = NewTimer
            /\ _delayed_cb' = NewTimer
            /\ tm_pc' = [tm_pc EXCEPT ![NewTimer] = "wait"]
            /\ tm_wait' = [tm_wait EXCEPT ![NewTimer] = DisconnectTimeout]
            /\ tm_timeout' = [tm_timeout EXCEPT ![NewTimer] = DisconnectTimeout]
            /\ tm_canceled' = [tm_canceled EXCEPT ![NewTimer] = FALSE]
            /\ cpc' = [cpc EXCEPT ![c] = "in"]
            /\ csock' = [csock EXCEPT ![c] = NewTimer]
            /\ UNCHANGED _sock_lock
       ELSE /\ _sock' = FailedConnectSock(NewTimer)
            /\ _sock_lock' = NoHolder
            /\ cpc' = [cpc EXCEPT ![c] = "raised"]
            /\ UNCHANGED <<_delayed_cb, tm_pc, tm_wait, tm_timeout,
                           tm_canceled, csock>>
    /\ UNCHANGED <<disconnect_in, epoch, emuVars, histVars>>

\* sock.sendall(data) or sock.recv(buffersize) on the yielded socket, then
\* the with blocks end; a socket error reaches the caller
SocketOp(c, ok) ==
    /\ cpc[c] = "in"
    /\ _sock_lock' = NoHolder
    /\ cpc' = [cpc EXCEPT ![c] = IF ok THEN "returned" ELSE "raised"]
    /\ csock' = [csock EXCEPT ![c] = None]
    /\ UNCHANGED <<_sock, _delayed_cb, disconnect_in, tm_pc, tm_wait,
                   tm_timeout, tm_canceled, epoch, emuVars, histVars>>

\* the caller has its result or its exception and goes on
CallEnds(c) ==
    /\ cpc[c] \in {"returned", "raised"}
    /\ cpc' = [cpc EXCEPT ![c] = "idle"]
    /\ UNCHANGED <<_sock, _delayed_cb, disconnect_in, _sock_lock, tm_pc,
                   tm_wait, tm_timeout, tm_canceled, csock, epoch,
                   emuVars, histVars>>

\* a thread calls teardown
CallTeardown(c) ==
    /\ cpc[c] = "idle"
    /\ cpc' = [cpc EXCEPT ![c] = "td_lock"]
    /\ epoch' = 1 - epoch
    /\ UNCHANGED <<_sock, _delayed_cb, disconnect_in, _sock_lock, tm_pc,
                   tm_wait, tm_timeout, tm_canceled, csock, emuVars, histVars>>

\* teardown, lines 140-144 and the first line of cancel: with the lock,
\* return when there is no timer, else set the timer's _canceled event
TeardownEnter(c) ==
    /\ cpc[c] = "td_lock"
    /\ SockLockFree(_sock_lock)
    /\ IF _delayed_cb = None
       THEN /\ cpc' = [cpc EXCEPT ![c] = "returned"]
            /\ UNCHANGED <<_sock_lock, tm_canceled>>
       ELSE /\ _sock_lock' = c
            /\ tm_canceled' = [tm_canceled EXCEPT ![_delayed_cb] = TRUE]
            /\ cpc' = [cpc EXCEPT ![c] = "td_join"]
    /\ UNCHANGED <<_sock, _delayed_cb, disconnect_in, tm_pc, tm_wait,
                   tm_timeout, csock, epoch, emuVars, histVars>>

\* cancel, line 50: self._thread.join() returns once the timer thread has
\* ended; then teardown calls _disconnect and leaves the with block
TeardownJoin(c) ==
    /\ cpc[c] = "td_join"
    /\ tm_pc[_delayed_cb] = "dead"
    /\ _sock' = None
    /\ _delayed_cb' = DisconnectedCb(_delayed_cb)
    /\ _sock_lock' = NoHolder
    /\ cpc' = [cpc EXCEPT ![c] = "returned"]
    /\ UNCHANGED <<disconnect_in, tm_pc, tm_wait, tm_timeout, tm_canceled,
                   csock, epoch, emuVars, histVars>>

\* _run, line 40: _canceled.wait returns True, the loop and the thread end
TimerCanceled(t) ==
    /\ tm_pc[t] = "wait"
    /\ tm_canceled[t]
    /\ tm_pc' = [tm_pc EXCEPT ![t] = "dead"]
    /\ UNCHANGED <<_sock, _delayed_cb, disconnect_in, _sock_lock, tm_wait,
                   tm_timeout, tm_canceled, cpc, csock, epoch, emuVars, histVars>>

\* _run, lines 40-41: the wait times out and the callback is called; the
\* callback, _maybe_disconnect, starts by waiting for the lock
TimerElapsed(t) ==
    /\ tm_pc[t] = "wait"
    /\ ~tm_canceled[t]
    /\ tm_wait[t] = 0
    /\ tm_pc' = [tm_pc EXCEPT ![t] = "cb_lock"]
    /\ UNCHANGED <<_sock, _delayed_cb, disconnect_in, _sock_lock, tm_wait,
                   tm_timeout, tm_canceled, cpc, csock, epoch, emuVars, histVars>>

\* _maybe_disconnect, line 98: the lock is taken
TimerLock(t) ==
    /\ tm_pc[t] = "cb_lock"
    /\ SockLockFree(_sock_lock)
    /\ _sock_lock' = t
    /\ tm_pc' = [tm_pc EXCEPT ![t] = "cb_in"]
    /\ UNCHANGED <<_sock, _delayed_cb, disconnect_in, tm_wait, tm_timeout,
                   tm_canceled, cpc, csock, epoch, emuVars, histVars>>

\* _maybe_disconnect, lines 99-106: before the disconnect time, return the
\* time left; else _disconnect and return None, which ends the thread
TimerCallback(t) ==
    /\ tm_pc[t] = "cb_in"
    /\ _sock_lock' = NoHolder
    /\ IF ~TimedOut(disconnect_in)
       THEN /\ tm_timeout' = [tm_timeout EXCEPT ![t] = disconnect_in]
            /\ tm_pc' = [tm_pc EXCEPT ![t] = "rearm"]
            /\ UNCHANGED <<_sock, _delayed_cb>>
       ELSE /\ _sock' = None
            /\ _delayed_cb' = DisconnectedCb(_delayed_cb)
            /\ tm_pc' = [tm_pc EXCEPT ![t] = "dead"]
            /\ UNCHANGED tm_timeout
    /\ UNCHANGED <<disconnect_in, tm_wait, tm_canceled, cpc, csock, epoch,
                   emuVars, histVars>>

\* _run, line 40 again: the next _canceled.wait(timeout) starts
TimerRearm(t) ==
    /\ tm_pc[t] = "rearm"
    /\ tm_wait' = [tm_wait EXCEPT ![t] = tm_timeout[t]]
    /\ tm_pc' = [tm_pc EXCEPT ![t] = "wait"]
    /\ UNCHANGED <<_sock, _delayed_cb, disconnect_in, _sock_lock, tm_timeout,
                   tm_canceled, cpc, csock, epoch, emuVars, histVars>>

Timer(t) ==
    \/ TimerCanceled(t)
    \/ TimerElapsed(t)
    \/ TimerLock(t)
    \/ TimerCallback(t)
    \/ TimerRearm(t)

\* the steps of a call that has been made
CallGoesOn(c) ==
    \/ EnterSection(c)
    \/ \E ok \in BOOLEAN : Connect(c, ok)
    \/ \E ok \in BOOLEAN : SocketOp(c, ok)
    \/ CallEnds(c)
    \/ TeardownEnter(c)
    \/ TeardownJoin(c)

NextLazy ==
    \/ Tick
    \/ \E t \in TimerIds : Timer(t)
    \/ \E c \in Callers : CallUse(c) \/ CallTeardown(c) \/ CallGoesOn(c)

SpecLazy == Init /\ [][NextLazy]_vars

\* time goes on, and a timer thread that can take a step takes one (it is
\* a thread of its own, waiting only for its timeout and for the lock)
SpecLazyFair ==
    /\ SpecLazy
    /\ WF_vars(Tick)
    /\ \A t \in TimerIds : WF_vars(Timer(t))

(***************************************************************************)
(* Claims about the lazy socket                                            *)
(***************************************************************************)
\* no thread is inside a call on the wrapper
NoCallRunning == \A c \in Callers : cpc[c] \in {"idle", "returned", "raised"}

\* C7: once a connection is open, no call is running and no further call is
\* made on the wrapper, the timer eventually closes the connection, leaving
\* no socket and no timer; and it does so at its first callback at or after
\* the disconnect time.
C7_IdleDisconnect ==
    /\ \A k \in {0, 1} :
          (_sock # None /\ epoch = k /\ NoCallRunning)
             ~> ((_sock = None /\ _delayed_cb = None) \/ epoch # k)
    /\ [][\A t \in TimerIds :
            (tm_pc[t] = "cb_in" /\ tm_pc'[t] # "cb_in" /\ disconnect_in = 0)
               => (_sock' = None /\ _delayed_cb' = None /\ tm_pc'[t] = "dead")
         ]_vars

\* C7 witness: a timer that was not canceled has ended, having closed the
\* connection
C7_Witness ==
    \E t \in TimerIds :
        /\ tm_pc[t] = "dead"
        /\ ~tm_canceled[t]
        /\ _sock = None
        /\ _delayed_cb = None

\* C8: every call of teardown returns: teardown never waits for the end of
\* a timer thread that itself waits for the lock teardown holds.
C8_TeardownReturns ==
    \A c \in Callers :
        cpc[c] = "td_join" =>
            ~(_sock_lock = c /\ tm_pc[_delayed_cb] = "cb_lock")

\* C9: when opening the connection fails, the caller gets the exception,
\* the lock is free again and the wrapper has no socket and no timer; the
\* next call that enters the section then goes to connect again.
C9_FailedConnect ==
    [][\A c \in Callers :
         /\ (cpc[c] = "connect" /\ cpc'[c] \notin {"connect", "in"}) =>
               /\ cpc'[c] = "raised"
               /\ _sock_lock' = NoHolder
               /\ _sock' = None
               /\ _delayed_cb' = None
         /\ (cpc[c] = "enter" /\ cpc'[c] # "enter" /\ _sock = None) =>
               cpc'[c] = "connect"
      ]_vars

\* C9 witness: after a failed connect of one caller, another caller is in
\* _connect for a fresh attempt
C9_Witness ==
    \E c, d \in Callers :
        /\ cpc[c] = "raised"
        /\ cpc[d] = "connect"
        /\ _sock = None
        /\ _delayed_cb = None

\* C12: a use of the wrapper puts the disconnect time DisconnectTimeout
\* ahead; a callback that runs before the disconnect time leaves socket and
\* timer as they are and returns the time left, for which the timer then
\* waits; the timer thread closes the connection only at or after the
\* disconnect time.
C12_NoEarlyDisconnect ==
    [][/\ \A c \in Callers :
            (cpc[c] = "enter" /\ cpc'[c] # "enter") =>
               disconnect_in' = DisconnectTimeout
       /\ \A t \in TimerIds :
            /\ (tm_pc[t] = "cb_in" /\ tm_pc'[t] # "cb_in") =>
                  IF disconnect_in > 0
                  THEN /\ _sock # None
                       /\ _sock' = _sock
                       /\ _delayed_cb' = _delayed_cb
                       /\ tm_pc'[t] = "rearm"
                       /\ tm_timeout'[t] = disconnect_in
                  ELSE _sock' = None
            /\ (tm_pc[t] = "rearm" /\ tm_pc'[t] # "rearm") =>
                  (tm_pc'[t] = "wait" /\ tm_wait'[t] = tm_timeout[t])
       /\ (_sock # None /\ _sock' = None /\ _sock_lock \in TimerIds) =>
            disconnect_in = 0
      ]_vars

\* C12 witness: a callback found the disconnect time moved forward by a
\* later use and re-armed its timer for the part of the timeout still left
C12_Witness ==
    \E t \in TimerIds :
        /\ tm_pc[t] = "rearm"
        /\ tm_timeout[t] > 0
        /\ tm_timeout[t] < DisconnectTimeout
        /\ _sock = t
        /\ _delayed_cb = t

\* the threads inside the section guarded by _sock_lock
InSection ==
    {c \in Callers : cpc[c] \in {"connect", "in", "td_join"}}
    \cup {t \in TimerIds : tm_pc[t] = "cb_in"}

\* C13: a caller at its socket operation holds the lock and operates on the
\* wrapper's socket, which is open; at most one caller or timer callback is
\* inside the section; a caller that enters the section with no socket goes
\* to connect; and while a caller is at its socket operation no step of
\* another thread changes the wrapper's socket.
C13_OperationOnOpenSocket ==
    /\ [](\A c \in Callers :
            cpc[c] = "in" =>
               /\ _sock_lock = c
               /\ _sock # None
               /\ csock[c] = _sock)
    /\ [](Cardinality(InSection) <= 1 /\ InSection \subseteq {_sock_lock})
    /\ [][\A c \in Callers :
            /\ (cpc[c] = "enter" /\ cpc'[c] # "enter") =>
                  cpc'[c] = (IF _sock = None THEN "connect" ELSE "in")
            /\ (cpc[c] = "in" /\ cpc'[c] = "in") => _sock' = _sock
         ]_vars

\* C13 witness: a caller is at its socket operation on the open socket
\* while the other caller and the timer callback both wait for the lock
C13_Witness ==
    \E c, d \in Callers, t \in TimerIds :
        /\ cpc[c] = "in"
        /\ csock[c] = _sock
        /\ _sock = t
        /\ cpc[d] = "enter"
        /\ tm_pc[t] = "cb_lock"
        /\ disconnect_in = 0

\* the timer threads that exist and have not ended
LiveTimers == {t \in TimerIds : tm_pc[t] \in {"wait", "cb_lock", "cb_in", "rearm"}}

\* C20: whenever no thread holds _sock_lock, the wrapper has a socket
\* exactly when it has a timer, at most one timer thread is alive, and a
\* timer thread that is alive is the wrapper's timer.
C20_SocketIffTimer ==
    _sock_lock = NoHolder =>
        /\ (_sock = None) <=> (_delayed_cb = None)
        /\ Cardinality(LiveTimers) <= 1
        /\ LiveTimers \subseteq {_delayed_cb}

\* C20 witness: the lock is free, the wrapper holds a socket and its timer,
\* whose thread is between a callback and its next wait, one caller has
\* returned from its call and the other is about to enter teardown
C20_Witness ==
    \E c, d \in Callers, t \in TimerIds :
        /\ _sock_lock = NoHolder
        /\ _sock = t
        /\ _delayed_cb = t
        /\ LiveTimers = {t}
        /\ tm_pc[t] = "rearm"
        /\ cpc[c] = "returned"
        /\ cpc[d] = "td_lock"
====
